---- MODULE Spec2Model ----
(***************************************************************************)
(* Model of rest_api: create_market_snapshot (snapshot.py), the snapshot   *)
(* store save_snapshot / load_snapshot (snapshot.py) and the parts of      *)
(* BinanceClient (binance_client.py) they use.                             *)
(*                                                                         *)
(* Python values are modelled as follows.                                  *)
(*   float / int   an integer; the result of a true division is a reduced  *)
(*                 fraction <<numerator, denominator>>                     *)
(*   tuple (p, q)  [kind |-> "tuple", items |-> <<p, q>>]                    *)
(*   list  [p, q]  [kind |-> "list",  items |-> <<p, q>>]                    *)
(*   list of records, dict, dataclass   a sequence, a record               *)
(*   datetime      a count of clock ticks, TicksPerSecond ticks a second   *)
(*   unbound name  None                                                    *)
(***************************************************************************)
EXTENDS Integers, Sequences, FiniteSets, TLC

\* ------------------------------------------------------------------ bounds
MaxTime == 2
TicksPerSecond == 2
MaxLevels == 6
MaxPrice == 1
MaxQty == 1
MaxTrades == 3
MaxKlines == 8
CallLevels == 1
CallTrades == 2
CallKlines == 1
MaxCalls == 4

\* ------------------------------------------------------- program constants
TopLevels == 5
Keep1h == 6
Keep4h == 6
Keep1d == 7

None == [kind |-> "None"]
\* No path yet, no clock reading yet.
NoPath == <<>>
NoTime == 0 - 1

Min(a, b) == IF a < b THEN a ELSE b
Abs(a) == IF a < 0 THEN -a ELSE a

RECURSIVE Gcd(_, _)
Gcd(a, b) == IF b = 0 THEN a ELSE Gcd(b, a % b)

\* The value of n / d for d # 0, as a reduced fraction with a positive denominator.
Frac(n, d) ==
    LET g == Gcd(Abs(n), Abs(d))
        s == IF d < 0 THEN -1 ELSE 1
    IN  <<(s * n) \div g, (s * d) \div g>>

Zero == <<0, 1>>

\* Python's true division: a / b raises ZeroDivisionError when b is 0.
PyDiv(n, d) ==
    IF d = 0 THEN [ok |-> FALSE, val |-> Zero] ELSE [ok |-> TRUE, val |-> Frac(n, d)]

\* Python's x * k for a fraction x and an integer k.
FracTimes(x, k) == Frac(x[1] * k, x[2])

\* seq[:k]
Prefix(s, k) == SubSeq(s, 1, Min(k, Len(s)))
\* Suffix taking the first k instead of the last k.
SuffixFromFront(s, k) == SubSeq(s, 1, Min(k, Len(s)))
\* seq[-k:]
Suffix(s, k) == SubSeq(s, Len(s) - Min(k, Len(s)) + 1, Len(s))

\* str.lower()
Symbols == {"ETHUSDT", "BtcUsdt"}
Lower(s) == CASE s = "ETHUSDT" -> "ethusdt" [] s = "BtcUsdt" -> "btcusdt" [] OTHER -> s

\* ----------------------------------------------------- data source records
Tuple(p, q) == [kind |-> "tuple", items |-> <<p, q>>]
PriceOf(level) == level.items[1]
QtyOf(level) == level.items[2]

\* A bid side of n levels, best (highest) price first; an ask side, lowest first.
BidSide(n, p0, q) == [i \in 1..n |-> Tuple(p0 + (n - i), q)]
AskSide(n, p0, q) == [i \in 1..n |-> Tuple(p0 + (i - 1), q)]

BidSides(maxn) ==
    {<<>>} \cup {BidSide(n, p, q) : n \in 1..maxn, p \in 0..MaxPrice, q \in 0..MaxQty}
AskSides(maxn) ==
    {<<>>} \cup {AskSide(n, p, q) : n \in 1..maxn, p \in 0..MaxPrice, q \in 0..MaxQty}

OrderBookDepth(sym, b, a) ==
    [symbol |-> sym, bids |-> b, asks |-> a, last_update_id |-> 1]

RecentTrade(id, q, maker) ==
    [trade_id |-> id, price |-> 1, qty |-> q, quote_qty |-> q, time |-> id,
     is_buyer_maker |-> maker]

\* Trade samples of n trades: the first k have is_buyer_maker set, each has quantity q.
TradeSample(n, k, q) == [i \in 1..n |-> RecentTrade(i, q + (i % 2), i <= k)]
TradeSamples(maxn) == {TradeSample(n, k, q) : n \in 0..maxn, k \in 0..maxn, q \in 0..MaxQty}

Kline(i) ==
    [open_time |-> i, open |-> i, high |-> i + 1, low |-> i, close |-> i + 1,
     volume |-> i, close_time |-> i + 1, quote_volume |-> i, trade_count |-> i,
     taker_buy_volume |-> i, taker_buy_quote_volume |-> i]
KlineSeries(n) == [i \in 1..n |-> Kline(i)]

TickerPrice(sym, p) == [symbol |-> sym, price |-> p]
Ticker24h(sym, p) ==
    [symbol |-> sym, price_change |-> p, price_change_percent |-> p,
     weighted_avg_price |-> p, prev_close_price |-> p, last_price |-> p,
     bid_price |-> p, ask_price |-> p, open_price |-> p, high_price |-> p + 1,
     low_price |-> p, volume |-> p, quote_volume |-> p, open_time |-> 0,
     close_time |-> 1, trade_count |-> p]
BookTicker(sym, p) ==
    [symbol |-> sym, bid_price |-> p, bid_qty |-> 1, ask_price |-> p + 1, ask_qty |-> 1]

\* ------------------------------------------------------ derived analytics
RECURSIVE CountMaker(_, _)
\* sum(1 for t in trades if t.is_buyer_maker == flag)
CountMaker(trades, flag) ==
    IF trades = <<>> THEN 0
    ELSE (IF Head(trades).is_buyer_maker = flag THEN 1 ELSE 0) + CountMaker(Tail(trades), flag)

\* TradesBuy counting the trades whose maker is the buyer.
TradesBuyByMaker(trades) == CountMaker(trades, TRUE)

TradesBuy(trades) == CountMaker(trades, FALSE)
TradesSell(trades) == CountMaker(trades, TRUE)

BuySellRatio(buy, sell) ==
    IF sell > 0 THEN PyDiv(buy, sell) ELSE [ok |-> TRUE, val |-> Zero]

RECURSIVE SumQty(_)
\* sum(q for _, q in levels)
SumQty(levels) == IF levels = <<>> THEN 0 ELSE QtyOf(Head(levels)) + SumQty(Tail(levels))

\* BidAskRatio with the guard on the ask depth left out.
BidAskRatioUnguarded(bid_depth, ask_depth) == PyDiv(bid_depth, ask_depth)

BidAskRatio(bid_depth, ask_depth) ==
    IF ask_depth > 0 THEN PyDiv(bid_depth, ask_depth) ELSE [ok |-> TRUE, val |-> Zero]

Spread(book) ==
    IF book.asks # <<>> /\ book.bids # <<>>
    THEN PriceOf(book.asks[1]) - PriceOf(book.bids[1])
    ELSE 0

SpreadPercent(sp, book) ==
    IF book.bids # <<>>
    THEN LET r == PyDiv(sp, PriceOf(book.bids[1]))
         IN  [ok |-> r.ok, val |-> FracTimes(r.val, 100)]
    ELSE [ok |-> TRUE, val |-> Zero]

RECURSIVE SumTradeQty(_)
\* sum(t.qty for t in trades)
SumTradeQty(trades) ==
    IF trades = <<>> THEN 0 ELSE Head(trades).qty + SumTradeQty(Tail(trades))

\* AvgTradeSize with the guard on the empty sample left out.
AvgTradeSizeUnguarded(trades) == PyDiv(SumTradeQty(trades), Len(trades))

AvgTradeSize(trades) ==
    IF trades # <<>> THEN PyDiv(SumTradeQty(trades), Len(trades))
    ELSE [ok |-> TRUE, val |-> Zero]

\* dataclasses.asdict(k)
KlineFields ==
    {"open_time", "open", "high", "low", "close", "volume", "close_time",
     "quote_volume", "trade_count", "taker_buy_volume", "taker_buy_quote_volume"}
AsDict(k) == [f \in KlineFields |-> k[f]]
AsDicts(ks) == [i \in 1..Len(ks) |-> AsDict(ks[i])]

\* datetime.isoformat(): the full clock reading; strftime("%Y%m%d_%H%M%S"): whole seconds.
IsoFormat(t) == [iso |-> t]
StrfSeconds(t) == t \div TicksPerSecond

\* ------------------------------------------------------------ persistence
\* json.dump writes a tuple and a list alike as an array; json.load reads an array
\* back as a list. Objects, strings and numbers come back as written.
\* ToArray writing the pair as (quantity, price).
ToArraySwapped(v) == [kind |-> "array", items |-> <<v.items[2], v.items[1]>>]
ToArray(v) == [kind |-> "array", items |-> v.items]
ToList(v) == [kind |-> "list", items |-> v.items]
ToArrays(s) == [i \in 1..Len(s) |-> ToArray(s[i])]
ToLists(s) == [i \in 1..Len(s) |-> ToList(s[i])]

JsonDump(data) ==
    IF "depth_analysis" \in DOMAIN data
    THEN [data EXCEPT !.depth_analysis.top_bids = ToArrays(@),
                      !.depth_analysis.top_asks = ToArrays(@)]
    ELSE data

JsonLoad(text) ==
    IF "depth_analysis" \in DOMAIN text
    THEN [text EXCEPT !.depth_analysis.top_bids = ToLists(@),
                      !.depth_analysis.top_asks = ToLists(@)]
    ELSE text

Absent == [kind |-> "absent"]
FileOf(text) == [kind |-> "file", wellformed |-> TRUE, json |-> text]
\* What an interrupted write leaves, or a file that is not JSON.
Garbled == [kind |-> "file", wellformed |-> FALSE, json |-> None]

MaxSecond == MaxTime \div TicksPerSecond
Paths == {<<Lower(s), t>> : s \in Symbols, t \in 0..MaxSecond}
OldPath == <<"ethusdt", 0>>
NoFiles == [p \in Paths |-> Absent]
\* The output directory before the call: missing, or holding one earlier file.
ExistingFiles ==
    {NoFiles,
     [NoFiles EXCEPT ![OldPath] = FileOf([symbol |-> "ETHUSDT"])],
     [NoFiles EXCEPT ![OldPath] = Garbled]}

NoOutcome == [kind |-> "none", value |-> None, error |-> ""]
Returned(v) == [kind |-> "returned", value |-> v, error |-> ""]
Raised(e) == [kind |-> "raised", value |-> None, error |-> e]

\* The top-level fields of a snapshot document.
SchemaFields ==
    {"timestamp", "symbol", "summary", "book_ticker", "spread", "depth_analysis",
     "trade_analysis", "klines"}
MatchesSchema(file) ==
    file.kind = "file" /\ file.wellformed /\ DOMAIN file.json = SchemaFields

\* LoadSnapshot with a check of the schema added.
LoadSnapshotValidated(fs, path) ==
    IF fs[path].kind = "absent" THEN Raised("FileNotFoundError")
    ELSE IF ~MatchesSchema(fs[path]) THEN Raised("CorruptSnapshotError")
    ELSE Returned(JsonLoad(fs[path].json))

\* load_snapshot(filepath)
LoadSnapshot(fs, path) ==
    IF fs[path].kind = "absent" THEN Raised("FileNotFoundError")
    ELSE IF ~fs[path].wellformed THEN Raised("JSONDecodeError")
    ELSE Returned(JsonLoad(fs[path].json))

\* ------------------------------------------------------------ HTTP client
\* BinanceClient: handle is _client (0 for None, else the id of the httpx.Client),
\* opened counts the httpx.Client objects created, closed holds the ids closed.
NewClient == [handle |-> 0, opened |-> 0, closed |-> {}]
GetClient(c) ==
    IF c.handle = 0
    THEN [c EXCEPT !.handle = c.opened + 1, !.opened = c.opened + 1]
    ELSE c
\* Close with _client left set after the httpx.Client is closed.
CloseKeepsHandle(c) ==
    IF c.handle # 0
    THEN [c EXCEPT !.closed = c.closed \cup {c.handle}]
    ELSE c

\* close(), which __exit__ calls too
Close(c) ==
    IF c.handle # 0
    THEN [c EXCEPT !.handle = 0, !.closed = c.closed \cup {c.handle}]
    ELSE c

\* ------------------------------------------------------------------ state
VARIABLES
    pc,              \* the statement create_market_snapshot is at
    symbol,          \* its argument
    should_close,    \* TRUE when the call made its own BinanceClient
    client,          \* the BinanceClient in use
    now,             \* the wall clock, in ticks
    ticker_price, ticker_24h, order_book, recent_trades, avg_price, book_ticker,
    klines_1h, klines_4h, klines_1d,
    trades_buy, trades_sell, buy_sell_ratio,
    total_bid_depth, total_ask_depth, bid_ask_ratio,
    spread, spread_percent,
    snapshot,
    outcome,         \* what the call gave its caller: a document or an exception
    failed_at,       \* the statement that raised, "" when none did
    requests,        \* the endpoints requested so far, in order
    raised,          \* the exception the failing statement raised, "" when none
    save_calls,      \* how many times save_snapshot was entered
    saved_path,      \* what save_snapshot returned, NoPath when it did not return
    save_now,        \* the clock as save_snapshot read it, NoTime before it did
    dir_exists, files,
    files_before,    \* the files as they were when the call began
    load_path, load_result,
    served,          \* the id of the httpx.Client each request was made on, in order
    client_entry,    \* the BinanceClient as it was when create_market_snapshot began
    calls,           \* the methods called on a BinanceClient used on its own, in order
    cli_pc,          \* the statement main is at
    argv,            \* sys.argv[1:]
    mode,
    probe,           \* what the ping request did: "unsent", "ok" or the exception
    ping_outcome,    \* what ping gave its caller
    caught,          \* the exception main's except clause caught, "" when none
    exit_status,     \* the process's exit status, NoStatus while it runs
    stdout           \* the lines printed, in order

fetched == <<ticker_price, ticker_24h, order_book, recent_trades, avg_price, book_ticker,
             klines_1h, klines_4h, klines_1d>>
analytics == <<trades_buy, trades_sell, buy_sell_ratio, total_bid_depth, total_ask_depth,
               bid_ask_ratio, spread, spread_percent>>
store == <<save_calls, saved_path, save_now, dir_exists, files, files_before>>
loads == <<load_path, load_result>>
ends == <<outcome, failed_at, raised>>
use == <<client_entry, calls>>
cli == <<cli_pc, argv, mode, probe, ping_outcome, caught, exit_status, stdout>>
vars == <<pc, symbol, should_close, client, now, fetched, analytics, snapshot, ends,
          requests, served, store, loads, use, cli>>

\* main has not been run: create_market_snapshot is called directly.
NoStatus == 0 - 1
NoCli ==
    /\ cli_pc = "none"
    /\ argv = <<>>
    /\ mode = ""
    /\ probe = "unsent"
    /\ ping_outcome = NoOutcome
    /\ caught = ""
    /\ exit_status = NoStatus
    /\ stdout = <<>>

Finished == {"returned", "failed"}

\* The call's responses are drawn from a few values of each kind.
Quotes == {1, 2}
Stats == {1}
CallBooks ==
    {OrderBookDepth(symbol, b, a) :
        b \in {<<>>, BidSide(1, 0, 1), BidSide(CallLevels, 1, 1)},
        a \in {<<>>, AskSide(CallLevels, 2, 1)}}
CallTradeSamples == {<<>>, TradeSample(CallTrades, 1, 1)}
CallKlineSeries == {KlineSeries(0), KlineSeries(CallKlines)}

\* What a request can raise: no connection, a timeout, an error status (an unknown
\* symbol is one), a response that lacks a field.
FetchErrors == {"ConnectError", "ReadTimeout", "HTTPStatusError", "KeyError"}

Init ==
    /\ pc = "get_ticker_price"
    /\ symbol \in Symbols
    /\ should_close \in BOOLEAN
    /\ client \in IF should_close THEN {NewClient} ELSE {NewClient, GetClient(NewClient)}
    /\ now = 0
    /\ ticker_price = None /\ ticker_24h = None /\ order_book = None
    /\ recent_trades = None /\ avg_price = None /\ book_ticker = None
    /\ klines_1h = None /\ klines_4h = None /\ klines_1d = None
    /\ trades_buy = None /\ trades_sell = None /\ buy_sell_ratio = None
    /\ total_bid_depth = None /\ total_ask_depth = None /\ bid_ask_ratio = None
    /\ spread = None /\ spread_percent = None
    /\ snapshot = None
    /\ outcome = NoOutcome
    /\ failed_at = ""
    /\ requests = <<>>
    /\ served = <<>>
    /\ client_entry = client
    /\ calls = <<>>
    /\ NoCli
    /\ raised = ""
    /\ save_calls = 0
    /\ saved_path = NoPath
    /\ save_now = NoTime
    /\ files \in ExistingFiles
    /\ files_before = files
    /\ dir_exists = (files # NoFiles)
    /\ load_path = NoPath
    /\ load_result = NoOutcome

\* Propagate with the exception wrapped in one of the call's own.
Wrapped(e) == "DataUnavailableError"

\* The try block has no except clause: the exception leaves the call as raised.
Propagate(e) == e

\* Finally with the client never closed.
FinallyNever(c) == c

\* finally: if should_close: client.close()
Finally(c) == IF should_close THEN Close(c) ELSE c

\* An exception raised at statement `at` ends the call.
Raise(at, e, c) ==
    /\ pc' = "failed"
    /\ raised' = e
    /\ outcome' = Raised(Propagate(e))
    /\ failed_at' = at
    /\ client' = Finally(c)

\* BinanceClient._get: the request of endpoint `op` is made on the client's handle.
Get(op) ==
    /\ pc = op
    /\ requests' = Append(requests, op)
    /\ served' = Append(served, GetClient(client).handle)

\* FetchFails with a failed request made again instead of ending the call.
FetchFailsRetried(op) ==
    /\ Get(op)
    /\ \/ \E e \in FetchErrors : Raise(op, e, GetClient(client))
       \/ /\ pc' = op
          /\ client' = GetClient(client)
          /\ UNCHANGED ends
    /\ UNCHANGED <<symbol, should_close, use, cli, now, fetched, analytics, snapshot, store, loads>>

FetchFails(op) ==
    /\ Get(op)
    /\ \E e \in FetchErrors : Raise(op, e, GetClient(client))
    /\ UNCHANGED <<symbol, should_close, use, cli, now, fetched, analytics, snapshot, store, loads>>

FetchReturns(op, next) ==
    /\ Get(op)
    /\ pc' = next
    /\ client' = GetClient(client)
    /\ UNCHANGED <<symbol, should_close, use, cli, now, analytics, snapshot, ends, store, loads>>

\* The nine requests of the call, in the order the code makes them.
FetchOrder ==
    <<"get_ticker_price", "get_ticker_24h", "get_order_book", "get_recent_trades", "get_avg_price",
      "get_book_ticker", "get_klines_1h", "get_klines_4h", "get_klines_1d">>

GetTickerPrice ==
    /\ FetchReturns("get_ticker_price", "get_ticker_24h")
    /\ \E p \in Quotes : ticker_price' = TickerPrice(symbol, p)
    /\ UNCHANGED <<ticker_24h, order_book, recent_trades, avg_price, book_ticker, klines_1h, klines_4h, klines_1d>>

GetTicker24h ==
    /\ FetchReturns("get_ticker_24h", "get_order_book")
    /\ \E p \in Stats : ticker_24h' = Ticker24h(symbol, p)
    /\ UNCHANGED <<ticker_price, order_book, recent_trades, avg_price, book_ticker, klines_1h, klines_4h, klines_1d>>

GetOrderBook ==
    /\ FetchReturns("get_order_book", "get_recent_trades")
    /\ \E book \in CallBooks : order_book' = book
    /\ UNCHANGED <<ticker_price, ticker_24h, recent_trades, avg_price, book_ticker, klines_1h, klines_4h, klines_1d>>

GetRecentTrades ==
    /\ FetchReturns("get_recent_trades", "get_avg_price")
    /\ \E sample \in CallTradeSamples : recent_trades' = sample
    /\ UNCHANGED <<ticker_price, ticker_24h, order_book, avg_price, book_ticker, klines_1h, klines_4h, klines_1d>>

GetAvgPrice ==
    /\ FetchReturns("get_avg_price", "get_book_ticker")
    /\ \E p \in Stats : avg_price' = p
    /\ UNCHANGED <<ticker_price, ticker_24h, order_book, recent_trades, book_ticker, klines_1h, klines_4h, klines_1d>>

GetBookTicker ==
    /\ FetchReturns("get_book_ticker", "get_klines_1h")
    /\ \E p \in Stats : book_ticker' = BookTicker(symbol, p)
    /\ UNCHANGED <<ticker_price, ticker_24h, order_book, recent_trades, avg_price, klines_1h, klines_4h, klines_1d>>

GetKlines1h ==
    /\ FetchReturns("get_klines_1h", "get_klines_4h")
    /\ \E series \in CallKlineSeries : klines_1h' = series
    /\ UNCHANGED <<ticker_price, ticker_24h, order_book, recent_trades, avg_price, book_ticker, klines_4h, klines_1d>>

GetKlines4h ==
    /\ FetchReturns("get_klines_4h", "get_klines_1d")
    /\ \E series \in {KlineSeries(CallKlines)} : klines_4h' = series
    /\ UNCHANGED <<ticker_price, ticker_24h, order_book, recent_trades, avg_price, book_ticker, klines_1h, klines_1d>>

GetKlines1d ==
    /\ FetchReturns("get_klines_1d", "trade_analytics")
    /\ \E series \in {KlineSeries(CallKlines + 1)} : klines_1d' = series
    /\ UNCHANGED <<ticker_price, ticker_24h, order_book, recent_trades, avg_price, book_ticker, klines_1h, klines_4h>>

FetchRaises == \E i \in 1..Len(FetchOrder) : FetchFails(FetchOrder[i])

\* ----------------------------------------------------- analytics statements
\* trades_buy, trades_sell, buy_sell_ratio
TradeAnalytics ==
    /\ pc = "trade_analytics"
    /\ LET buy == TradesBuy(recent_trades)
           sell == TradesSell(recent_trades)
           r == BuySellRatio(buy, sell)
       IN  /\ trades_buy' = buy
           /\ trades_sell' = sell
           /\ IF r.ok
              THEN /\ buy_sell_ratio' = r.val
                   /\ pc' = "depth_analytics"
                   /\ UNCHANGED <<client, ends>>
              ELSE /\ UNCHANGED buy_sell_ratio
                   /\ Raise("trade_analytics", "ZeroDivisionError", client)
    /\ UNCHANGED <<symbol, should_close, use, cli, now, fetched, total_bid_depth, total_ask_depth,
                   bid_ask_ratio, spread, spread_percent, snapshot, requests, served,
                   store, loads>>

\* total_bid_depth, total_ask_depth, bid_ask_ratio
DepthAnalytics ==
    /\ pc = "depth_analytics"
    /\ LET bid_depth == SumQty(order_book.bids)
           ask_depth == SumQty(order_book.asks)
           r == BidAskRatio(bid_depth, ask_depth)
       IN  /\ total_bid_depth' = bid_depth
           /\ total_ask_depth' = ask_depth
           /\ IF r.ok
              THEN /\ bid_ask_ratio' = r.val
                   /\ pc' = "spread_analytics"
                   /\ UNCHANGED <<client, ends>>
              ELSE /\ UNCHANGED bid_ask_ratio
                   /\ Raise("depth_analytics", "ZeroDivisionError", client)
    /\ UNCHANGED <<symbol, should_close, use, cli, now, fetched, trades_buy, trades_sell,
                   buy_sell_ratio, spread, spread_percent, snapshot, requests, served,
                   store, loads>>

\* spread, spread_percent
SpreadAnalytics ==
    /\ pc = "spread_analytics"
    /\ LET sp == Spread(order_book)
           r == SpreadPercent(sp, order_book)
       IN  /\ spread' = sp
           /\ IF r.ok
              THEN /\ spread_percent' = r.val
                   /\ pc' = "build"
                   /\ UNCHANGED <<client, ends>>
              ELSE /\ UNCHANGED spread_percent
                   /\ Raise("spread_analytics", "ZeroDivisionError", client)
    /\ UNCHANGED <<symbol, should_close, use, cli, now, fetched, trades_buy, trades_sell,
                   buy_sell_ratio, total_bid_depth, total_ask_depth, bid_ask_ratio,
                   snapshot, requests, served, store, loads>>

\* The snapshot dictionary, given the average trade size.
Document(avg_trade_size) ==
    [timestamp |-> IsoFormat(now),
     symbol |-> symbol,
     summary |->
        [price |-> ticker_price.price,
         avg_price_5m |-> avg_price,
         price_change_24h |-> ticker_24h.price_change,
         price_change_percent_24h |-> ticker_24h.price_change_percent,
         high_24h |-> ticker_24h.high_price,
         low_24h |-> ticker_24h.low_price,
         volume_24h |-> ticker_24h.volume,
         quote_volume_24h |-> ticker_24h.quote_volume,
         trade_count_24h |-> ticker_24h.trade_count],
     book_ticker |-> book_ticker,
     spread |-> [absolute |-> spread, percent |-> spread_percent],
     depth_analysis |->
        [total_bid_depth |-> total_bid_depth,
         total_ask_depth |-> total_ask_depth,
         bid_ask_ratio |-> bid_ask_ratio,
         top_bids |-> Prefix(order_book.bids, TopLevels),
         top_asks |-> Prefix(order_book.asks, TopLevels)],
     trade_analysis |->
        [total_trades |-> Len(recent_trades),
         buy_trades |-> trades_buy,
         sell_trades |-> trades_sell,
         buy_sell_ratio |-> buy_sell_ratio,
         avg_trade_size |-> avg_trade_size],
     klines |->
        [k \in {"1h", "4h", "1d"} |->
            CASE k = "1h" -> AsDicts(Suffix(klines_1h, Keep1h))
              [] k = "4h" -> AsDicts(Suffix(klines_4h, Keep4h))
              [] k = "1d" -> AsDicts(Suffix(klines_1d, Keep1d))]]

\* snapshot = {...}
Build ==
    /\ pc = "build"
    /\ LET r == AvgTradeSize(recent_trades)
       IN  IF r.ok
           THEN /\ snapshot' = Document(r.val)
                /\ pc' = "save"
                /\ UNCHANGED <<client, ends>>
           ELSE /\ UNCHANGED snapshot
                /\ Raise("build", "ZeroDivisionError", client)
    /\ UNCHANGED <<symbol, should_close, use, cli, now, fetched, analytics, requests, served,
                   store, loads>>

\* ------------------------------------------------------------------ saving
\* FileName with the symbol's case kept.
FileNameKeepsCase(sym, t) == <<sym, StrfSeconds(t)>>

\* output_dir / f"{symbol.lower()}_{timestamp}.json", the directory left out.
FileName(sym, t) == <<Lower(sym), StrfSeconds(t)>>

\* SaveRaises with the exception swallowed: the call goes on to return.
SaveSuppressed(e) ==
    /\ pc' = "return"
    /\ UNCHANGED <<client, ends>>

\* An exception of save_snapshot leaves create_market_snapshot as raised.
SaveRaises(e) == Raise("save", e, client)

\* CallSave with the call of save_snapshot left out.
CallSaveSkipped ==
    /\ pc = "save"
    /\ pc' = "return"
    /\ UNCHANGED <<symbol, should_close, use, cli, client, now, fetched, analytics, snapshot, ends,
                   requests, served, store, loads>>

\* save_snapshot(snapshot, symbol, output_dir): mkdir, the clock, open, json.dump.
CallSave ==
    /\ pc = "save"
    /\ save_calls' = save_calls + 1
    /\ \/ /\ SaveRaises("OSError")                       \* mkdir fails
          /\ UNCHANGED <<saved_path, save_now, dir_exists, files>>
       \/ /\ dir_exists' = TRUE                          \* open fails
          /\ save_now' = now
          /\ SaveRaises("OSError")
          /\ UNCHANGED <<saved_path, files>>
       \/ /\ dir_exists' = TRUE                          \* the write fails part way
          /\ save_now' = now
          /\ files' = [files EXCEPT ![FileName(symbol, now)] = Garbled]
          /\ SaveRaises("OSError")
          /\ UNCHANGED saved_path
       \/ /\ dir_exists' = TRUE
          /\ save_now' = now
          /\ files' = [files EXCEPT ![FileName(symbol, now)] = FileOf(JsonDump(snapshot))]
          /\ saved_path' = FileName(symbol, now)
          /\ pc' = "return"
          /\ UNCHANGED <<client, ends>>
    /\ UNCHANGED <<symbol, should_close, use, cli, now, fetched, analytics, snapshot, requests, served,
                   files_before, loads>>

\* return snapshot
Return ==
    /\ pc = "return"
    /\ pc' = "returned"
    /\ outcome' = Returned(snapshot)
    /\ client' = Finally(client)
    /\ UNCHANGED <<symbol, should_close, use, cli, now, fetched, analytics, snapshot, failed_at,
                   raised, requests, served, store, loads>>

\* Time passes while the call runs.
Tick ==
    /\ pc \notin Finished
    /\ now < MaxTime
    /\ now' = now + 1
    /\ UNCHANGED <<pc, symbol, should_close, use, cli, client, fetched, analytics, snapshot, ends,
                   requests, served, store, loads>>

\* load_snapshot(filepath), once the call is over.
Load ==
    /\ pc \in Finished
    /\ load_path = NoPath
    /\ \E path \in {p \in Paths : files[p] # Absent} \cup {OldPath} :
        /\ load_path' = path
        /\ load_result' = LoadSnapshot(files, path)
    /\ UNCHANGED <<pc, symbol, should_close, use, cli, client, now, fetched, analytics, snapshot,
                   ends, requests, served, store>>

Next ==
    \/ GetTickerPrice \/ GetTicker24h \/ GetOrderBook \/ GetRecentTrades \/ GetAvgPrice
    \/ GetBookTicker \/ GetKlines1h \/ GetKlines4h \/ GetKlines1d
    \/ FetchRaises
    \/ TradeAnalytics \/ DepthAnalytics \/ SpreadAnalytics \/ Build
    \/ CallSave \/ Return
    \/ Tick \/ Load

Spec == Init /\ [][Next]_vars

\* ------------------------------------------------------- the command line
\* main(), cmd_info and cmd_snapshot: the command lines tried, sys.argv[0] left out.
Argvs ==
    {<<>>, <<"--help">>, <<"ethusdt">>, <<"ETHUSDT", "snapshot">>, <<"ethusdt", "INFO">>}

\* str.upper() and str.lower() of the words of Argvs.
Upper(s) ==
    CASE s = "ethusdt" -> "ETHUSDT" [] s = "--help" -> "--HELP" [] OTHER -> s
LowerMode(s) == CASE s = "INFO" -> "info" [] OTHER -> s

HelpWords == {"HELP", "-H", "--HELP"}

\* A printed line: the header, an error line, the figures displayed, the footer, the help.
Line(kind, text) == [line |-> kind, text |-> text]
CannotConnect == Line("error", "Cannot connect to Binance API")

\* ping with the exception of a failed request left uncaught.
PingUncaught(e) == IF e = "ok" THEN Returned(TRUE) ELSE Raised(e)

\* BinanceClient.ping: True when the request returns, False on any Exception.
Ping(e) == IF e = "ok" THEN Returned(TRUE) ELSE Returned(FALSE)

InitCli ==
    /\ pc = "idle"
    /\ symbol = ""
    /\ should_close = FALSE
    /\ client = NewClient
    /\ now = 0
    /\ ticker_price = None /\ ticker_24h = None /\ order_book = None
    /\ recent_trades = None /\ avg_price = None /\ book_ticker = None
    /\ klines_1h = None /\ klines_4h = None /\ klines_1d = None
    /\ trades_buy = None /\ trades_sell = None /\ buy_sell_ratio = None
    /\ total_bid_depth = None /\ total_ask_depth = None /\ bid_ask_ratio = None
    /\ spread = None /\ spread_percent = None
    /\ snapshot = None
    /\ outcome = NoOutcome
    /\ failed_at = ""
    /\ requests = <<>>
    /\ served = <<>>
    /\ client_entry = NewClient
    /\ calls = <<>>
    /\ raised = ""
    /\ save_calls = 0
    /\ saved_path = NoPath
    /\ save_now = NoTime
    /\ files \in ExistingFiles
    /\ files_before = files
    /\ dir_exists = (files # NoFiles)
    /\ load_path = NoPath
    /\ load_result = NoOutcome
    /\ cli_pc = "main"
    /\ argv \in Argvs
    /\ mode = ""
    /\ probe = "unsent"
    /\ ping_outcome = NoOutcome
    /\ caught = ""
    /\ exit_status = NoStatus
    /\ stdout = <<>>

\* What the pipeline's statements own: untouched by the statements of main.py.
call == <<pc, should_close, now, order_book, recent_trades, avg_price, ticker_price,
          klines_1h, klines_4h, klines_1d, analytics, snapshot, ends, store, loads,
          client_entry, calls>>

\* main, lines 163-175: the usage text, or the symbol and the mode.
Main ==
    /\ cli_pc = "main"
    /\ IF Len(argv) < 1 \/ (Len(argv) >= 1 /\ Upper(argv[1]) \in HelpWords)
       THEN /\ stdout' = Append(stdout, Line("help", ""))
            /\ exit_status' = 0
            /\ cli_pc' = "exited"
            /\ UNCHANGED <<symbol, mode, client>>
       ELSE /\ symbol' = Upper(argv[1])
            /\ mode' = IF Len(argv) > 1 THEN LowerMode(argv[2]) ELSE "snapshot"
            /\ stdout' = Append(stdout, Line("header", mode'))
            /\ client' = NewClient
            /\ cli_pc' = "ping"
            /\ UNCHANGED exit_status
    /\ UNCHANGED <<call, argv, probe, ping_outcome, caught, requests, served,
                   ticker_24h, book_ticker>>

\* An exception leaves the `with` block, which closes the client, and reaches main's
\* except clause: the error line, sys.exit(1).
Except(e, c) ==
    /\ caught' = e
    /\ client' = Close(c)
    /\ stdout' = Append(stdout, Line("error", e))
    /\ exit_status' = 1
    /\ cli_pc' = "exited"

\* The command ran to its end: the `with` block closes the client, the footer is
\* printed, main returns.
Completes(c, shown) ==
    /\ client' = Close(c)
    /\ stdout' = stdout \o <<Line("shown", shown), Line("footer", "")>>
    /\ exit_status' = 0
    /\ cli_pc' = "exited"
    /\ UNCHANGED caught

\* if not client.ping(): print the error and return, in cmd_info and cmd_snapshot.
CmdPing ==
    /\ cli_pc = "ping"
    /\ \E e \in {"ok"} \cup FetchErrors :
        /\ probe' = e
        /\ requests' = Append(requests, "ping")
        /\ served' = Append(served, GetClient(client).handle)
        /\ LET r == Ping(e)
           IN  IF r.kind = "raised"
               THEN /\ Except(r.error, GetClient(client))
                    /\ UNCHANGED ping_outcome
               ELSE /\ ping_outcome' = r
                    /\ UNCHANGED caught
                    /\ IF r.value
                       THEN /\ client' = GetClient(client)
                            /\ cli_pc' = IF mode = "info" THEN "info_ticker" ELSE "call"
                            /\ UNCHANGED <<stdout, exit_status>>
                       ELSE /\ client' = Close(GetClient(client))
                            /\ stdout' = Append(stdout, CannotConnect)
                            /\ exit_status' = 0
                            /\ cli_pc' = "exited"
    /\ UNCHANGED <<call, symbol, argv, mode, ticker_24h, book_ticker>>

\* cmd_info: ticker = client.get_ticker_24h(symbol)
InfoTicker ==
    /\ cli_pc = "info_ticker"
    /\ requests' = Append(requests, "get_ticker_24h")
    /\ served' = Append(served, GetClient(client).handle)
    /\ \/ \E e \in FetchErrors :
            /\ Except(e, GetClient(client))
            /\ UNCHANGED ticker_24h
       \/ \E p \in Stats :
            /\ ticker_24h' = Ticker24h(symbol, p)
            /\ client' = GetClient(client)
            /\ cli_pc' = "info_book"
            /\ UNCHANGED <<caught, stdout, exit_status>>
    /\ UNCHANGED <<call, symbol, argv, mode, probe, ping_outcome, book_ticker>>

\* cmd_info: book = client.get_book_ticker(symbol)
InfoBook ==
    /\ cli_pc = "info_book"
    /\ requests' = Append(requests, "get_book_ticker")
    /\ served' = Append(served, GetClient(client).handle)
    /\ \/ \E e \in FetchErrors :
            /\ Except(e, GetClient(client))
            /\ UNCHANGED book_ticker
       \/ \E p \in {0} \cup Stats :
            /\ book_ticker' = BookTicker(symbol, p)
            /\ client' = GetClient(client)
            /\ cli_pc' = "info_show"
            /\ UNCHANGED <<caught, stdout, exit_status>>
    /\ UNCHANGED <<call, symbol, argv, mode, probe, ping_outcome, ticker_24h>>

\* cmd_info: the figures printed, spread / book['bid_price'] * 100 among them.
InfoShow ==
    /\ cli_pc = "info_show"
    /\ LET r == PyDiv(book_ticker.ask_price - book_ticker.bid_price, book_ticker.bid_price)
       IN  IF r.ok
           THEN Completes(client, FracTimes(r.val, 100))
           ELSE Except("ZeroDivisionError", client)
    /\ UNCHANGED <<call, symbol, argv, mode, probe, ping_outcome, requests, served,
                   ticker_24h, book_ticker>>

\* cmd_snapshot: snapshot = create_market_snapshot(symbol, client)
SnapshotCall ==
    /\ cli_pc = "call"
    /\ pc' = "get_ticker_price"
    /\ should_close' = FALSE
    /\ client_entry' = client
    /\ cli_pc' = "in_call"
    /\ UNCHANGED <<symbol, client, now, fetched, analytics, snapshot, ends, requests,
                   served, store, loads, calls, argv, mode, probe, ping_outcome, caught,
                   exit_status, stdout>>

\* cmd_snapshot: the call raised.
SnapshotRaised ==
    /\ cli_pc = "in_call"
    /\ pc = "failed"
    /\ Except(outcome.error, client)
    /\ UNCHANGED <<call, symbol, argv, mode, probe, ping_outcome, requests, served,
                   ticker_24h, book_ticker>>

\* cmd_snapshot: the summary printed, t['buy_trades']/t['total_trades']*100 and
\* t['sell_trades']/t['total_trades']*100 among its figures.
SnapshotShow ==
    /\ cli_pc = "in_call"
    /\ pc = "returned"
    /\ LET t == outcome.value.trade_analysis
           b == PyDiv(t.buy_trades, t.total_trades)
           a == PyDiv(t.sell_trades, t.total_trades)
       IN  IF b.ok /\ a.ok
           THEN Completes(client, <<FracTimes(b.val, 100), FracTimes(a.val, 100)>>)
           ELSE Except("ZeroDivisionError", client)
    /\ UNCHANGED <<call, symbol, argv, mode, probe, ping_outcome, requests, served,
                   ticker_24h, book_ticker>>

NextCli ==
    \/ Main \/ CmdPing
    \/ InfoTicker \/ InfoBook \/ InfoShow
    \/ SnapshotCall \/ SnapshotRaised \/ SnapshotShow
    \/ GetTickerPrice \/ GetTicker24h \/ GetOrderBook \/ GetRecentTrades \/ GetAvgPrice
    \/ GetBookTicker \/ GetKlines1h \/ GetKlines4h \/ GetKlines1d
    \/ FetchRaises
    \/ TradeAnalytics \/ DepthAnalytics \/ SpreadAnalytics \/ Build
    \/ CallSave \/ Return

SpecCli == InitCli /\ [][NextCli]_vars

\* ------------------------------------------- one BinanceClient on its own
\* Requests and close() calls on one BinanceClient, in any order, MaxCalls of them.
InitClient ==
    /\ pc = "idle"
    /\ symbol = "ETHUSDT"
    /\ should_close = FALSE
    /\ client = NewClient
    /\ now = 0
    /\ ticker_price = None /\ ticker_24h = None /\ order_book = None
    /\ recent_trades = None /\ avg_price = None /\ book_ticker = None
    /\ klines_1h = None /\ klines_4h = None /\ klines_1d = None
    /\ trades_buy = None /\ trades_sell = None /\ buy_sell_ratio = None
    /\ total_bid_depth = None /\ total_ask_depth = None /\ bid_ask_ratio = None
    /\ spread = None /\ spread_percent = None
    /\ snapshot = None
    /\ outcome = NoOutcome
    /\ failed_at = ""
    /\ requests = <<>>
    /\ served = <<>>
    /\ client_entry = NewClient
    /\ calls = <<>>
    /\ NoCli
    /\ raised = ""
    /\ save_calls = 0
    /\ saved_path = NoPath
    /\ save_now = NoTime
    /\ files = NoFiles
    /\ files_before = NoFiles
    /\ dir_exists = FALSE
    /\ load_path = NoPath
    /\ load_result = NoOutcome

\* A method call on the client and the client as the call left it.
Called(method, c) == [method |-> method, after |-> c]

\* _get(endpoint): _get_client(), then the request, which returns or raises.
ClientGet ==
    /\ cli_pc = "none" /\ pc = "idle"
    /\ Len(calls) < MaxCalls
    /\ client' = GetClient(client)
    /\ requests' = Append(requests, "ping")
    /\ served' = Append(served, client'.handle)
    /\ \E result \in {"get", "get_raised"} : calls' = Append(calls, Called(result, client'))
    /\ UNCHANGED <<pc, symbol, should_close, now, fetched, analytics, snapshot, ends,
                   store, loads, client_entry, cli>>

\* close()
ClientClose ==
    /\ cli_pc = "none" /\ pc = "idle"
    /\ Len(calls) < MaxCalls
    /\ client' = Close(client)
    /\ calls' = Append(calls, Called("close", client'))
    /\ UNCHANGED <<pc, symbol, should_close, now, fetched, analytics, snapshot, ends,
                   requests, served, store, loads, client_entry, cli>>

NextClient == ClientGet \/ ClientClose

SpecClient == InitClient /\ [][NextClient]_vars

\* ------------------------------------------- the analytics on their own
\* The statements after the nine requests, started from every order book, every
\* trade sample and every three candle series of the bounds, one of the three varied
\* and the other two at their defaults.
Books ==
    {OrderBookDepth("ETHUSDT", b, a) : b \in BidSides(MaxLevels), a \in AskSides(MaxLevels)}
DefaultBook == OrderBookDepth("ETHUSDT", BidSide(1, 1, 1), AskSide(1, 2, 1))
DefaultSample == TradeSample(2, 1, 1)
DefaultSeries == <<1, 1, 1>>
\* The lengths of the three candle series: 1h, 4h, 1d.
SeriesLengths == {<<a, b, c>> : a \in 0..MaxKlines, b \in 0..MaxKlines, c \in 0..MaxKlines}
AnalyticsInputs ==
    {[book |-> b, sample |-> DefaultSample, series |-> DefaultSeries] : b \in Books}
        \cup {[book |-> DefaultBook, sample |-> t, series |-> DefaultSeries] :
                    t \in TradeSamples(MaxTrades)}
        \cup {[book |-> DefaultBook, sample |-> DefaultSample, series |-> n] :
                    n \in SeriesLengths}

InitAnalytics ==
    /\ pc = "trade_analytics"
    /\ symbol = "ETHUSDT"
    /\ should_close = TRUE
    /\ client = GetClient(NewClient)
    /\ now = 0
    /\ ticker_price = TickerPrice(symbol, 1)
    /\ ticker_24h = Ticker24h(symbol, 1)
    /\ avg_price = 1
    /\ book_ticker = BookTicker(symbol, 1)
    /\ \E in \in AnalyticsInputs :
        /\ order_book = in.book
        /\ recent_trades = in.sample
        /\ klines_1h = KlineSeries(in.series[1])
        /\ klines_4h = KlineSeries(in.series[2])
        /\ klines_1d = KlineSeries(in.series[3])
    /\ trades_buy = None /\ trades_sell = None /\ buy_sell_ratio = None
    /\ total_bid_depth = None /\ total_ask_depth = None /\ bid_ask_ratio = None
    /\ spread = None /\ spread_percent = None
    /\ snapshot = None
    /\ outcome = NoOutcome
    /\ failed_at = ""
    /\ requests = FetchOrder
    /\ served = [i \in 1..Len(FetchOrder) |-> client.handle]
    /\ client_entry = NewClient
    /\ calls = <<>>
    /\ NoCli
    /\ raised = ""
    /\ save_calls = 0
    /\ saved_path = NoPath
    /\ save_now = NoTime
    /\ files = NoFiles
    /\ files_before = NoFiles
    /\ dir_exists = FALSE
    /\ load_path = NoPath
    /\ load_result = NoOutcome

NextAnalytics == TradeAnalytics \/ DepthAnalytics \/ SpreadAnalytics \/ Build

SpecAnalytics == InitAnalytics /\ [][NextAnalytics]_vars

\* ------------------------------------------------------------------ claims
FetchOps == {FetchOrder[i] : i \in 1..Len(FetchOrder)}
FetchIndex(op) == CHOOSE i \in 1..Len(FetchOrder) : FetchOrder[i] = op

\* C1: when one of the nine requests fails the call fails, the requests made are
\* exactly those up to and including the failed one, each made once (none later,
\* none again), save_snapshot is not entered and the files are as they were.
C1_FetchFailureAborts ==
    failed_at \in FetchOps =>
        /\ pc = "failed"
        /\ outcome.kind = "raised"
        /\ requests = SubSeq(FetchOrder, 1, FetchIndex(failed_at))
        /\ save_calls = 0
        /\ saved_path = NoPath
        /\ files = files_before

\* The depth request fails with an error status.
C1_Witness ==
    /\ pc = "failed"
    /\ failed_at = "get_order_book"
    /\ raised = "HTTPStatusError"
    /\ Len(requests) = 3

\* C2: a document is returned only after save_snapshot was entered exactly once, after
\* all nine requests, and returned a path whose file holds that document.
C2_ReturnedIsPersisted ==
    /\ save_calls > 0 => requests = FetchOrder
    /\ pc = "return" => saved_path # NoPath
    /\ outcome.kind = "returned" =>
        /\ save_calls = 1
        /\ saved_path # NoPath
        /\ files[saved_path] = FileOf(JsonDump(outcome.value))

C2_Witness ==
    /\ pc = "returned"
    /\ outcome.kind = "returned"
    /\ outcome.value = snapshot
    /\ save_calls = 1

\* C3 as stated: a failed request makes the call fail with a DataUnavailableError.
C3_DataUnavailableError ==
    failed_at \in FetchOps => outcome = Raised("DataUnavailableError")

\* C3 amended: a failed request makes the call fail with the very exception the
\* request raised (a transport error, an error status, a missing field), unwrapped.
C3_FetchErrorPropagates ==
    failed_at \in FetchOps =>
        /\ raised \in FetchErrors
        /\ outcome = Raised(raised)

\* The first request fails with an error status, as for an unknown symbol.
C3_Witness ==
    /\ failed_at = "get_ticker_price"
    /\ outcome = Raised("HTTPStatusError")

\* C4: once save_snapshot has failed (it was entered and returned no path) the call
\* has failed with the storage error; it neither goes on to return nor returns.
C4_SaveFailureNotSuppressed ==
    (save_calls > 0 /\ saved_path = NoPath) =>
        /\ pc = "failed"
        /\ failed_at = "save"
        /\ outcome = Raised("OSError")

\* The write failed part way: the directory is there and the file is garbled.
C4_Witness ==
    /\ failed_at = "save"
    /\ dir_exists
    /\ \E p \in Paths : files[p] = Garbled /\ files_before[p] # Garbled

\* C5 as stated: the file is named after the second of the document's own timestamp.
C5_NamedByDocumentTimestamp ==
    saved_path # NoPath =>
        saved_path = <<Lower(symbol), StrfSeconds(snapshot.timestamp.iso)>>

\* C5 amended: the file is named after the lower-cased symbol and the second of the
\* clock as save_snapshot itself read it, and holds the document; that second is the
\* document's only when no second boundary passed between the two readings.
C5_NamedBySaveClock ==
    saved_path # NoPath =>
        /\ save_now # NoTime
        /\ saved_path = <<Lower(symbol), StrfSeconds(save_now)>>
        /\ files[saved_path] = FileOf(JsonDump(snapshot))
        /\ (saved_path[2] = StrfSeconds(snapshot.timestamp.iso)
                <=> StrfSeconds(save_now) = StrfSeconds(snapshot.timestamp.iso))

\* A second boundary passed between building the document and saving it.
C5_Witness ==
    /\ saved_path # NoPath
    /\ StrfSeconds(save_now) # StrfSeconds(snapshot.timestamp.iso)

\* The document with each level pair of top_bids and top_asks as a list.
PairsAsLists(levels) == [i \in 1..Len(levels) |-> [kind |-> "list", items |-> levels[i].items]]
TuplesAsLists(doc) ==
    [doc EXCEPT !.depth_analysis.top_bids = PairsAsLists(@),
                !.depth_analysis.top_asks = PairsAsLists(@)]

\* C6 as stated: loading the file save_snapshot wrote gives a document equal to the saved one.
C6_RoundTripEqual ==
    (load_path # NoPath /\ load_path = saved_path) => load_result = Returned(snapshot)

\* C6 amended: loading the file save_snapshot wrote gives the saved document with every
\* field and value kept, except that each level pair of top_bids and top_asks, a tuple
\* when saved, is a list of the same price and quantity; the two documents are equal
\* exactly when top_bids and top_asks are both empty.
C6_RoundTripListsForTuples ==
    (load_path # NoPath /\ load_path = saved_path) =>
        /\ load_result = Returned(TuplesAsLists(snapshot))
        /\ (load_result.value = snapshot
                <=> /\ snapshot.depth_analysis.top_bids = <<>>
                    /\ snapshot.depth_analysis.top_asks = <<>>)

\* A saved document with levels on both sides is loaded back.
C6_Witness ==
    /\ load_path # NoPath
    /\ load_path = saved_path
    /\ snapshot.depth_analysis.top_bids # <<>>
    /\ snapshot.depth_analysis.top_asks # <<>>

\* C7 as stated: loading a file that does not match the schema fails with a
\* CorruptSnapshotError.
C7_LoadRejectsSchemaMismatch ==
    (load_path # NoPath /\ files[load_path].kind = "file" /\ ~MatchesSchema(files[load_path]))
        => load_result = Raised("CorruptSnapshotError")

\* C7 amended: load_snapshot checks no schema. It returns whatever JSON value the file
\* holds, fields missing or not; it fails only when the file is not JSON (JSONDecodeError)
\* or is not there (FileNotFoundError), never with a CorruptSnapshotError.
C7_LoadChecksNoSchema ==
    load_path # NoPath =>
        LET file == files[load_path]
        IN  /\ load_result.error # "CorruptSnapshotError"
            /\ file.kind = "absent" => load_result = Raised("FileNotFoundError")
            /\ (file.kind = "file" /\ ~file.wellformed) =>
                    load_result = Raised("JSONDecodeError")
            /\ (file.kind = "file" /\ file.wellformed) =>
                    /\ load_result.kind = "returned"
                    /\ DOMAIN load_result.value = DOMAIN file.json

\* A well-formed file that lacks required fields is loaded and returned.
C7_Witness ==
    /\ load_path # NoPath
    /\ load_result.kind = "returned"
    /\ ~MatchesSchema(files[load_path])

\* r is the value of n / d, for d # 0.
IsQuotient(r, n, d) == r[2] > 0 /\ r[1] * d = n * r[2]

\* The statements that follow the spread, the depth and the trade statements.
AfterTrades ==
    \/ pc \in {"depth_analytics", "spread_analytics", "build", "save"}
    \/ failed_at \in {"depth_analytics", "spread_analytics", "build"}
AfterDepth ==
    \/ pc \in {"spread_analytics", "build", "save"}
    \/ failed_at \in {"spread_analytics", "build"}
AfterSpread == pc \in {"build", "save"} \/ failed_at = "build"

\* C8 as stated: the spread statements never fault; spread is best ask - best bid when
\* both sides have levels and 0 otherwise; spread percent is spread / best bid x 100
\* when there are bids and the best bid is not 0, and 0 otherwise.
C8_SpreadGuarded ==
    /\ failed_at # "spread_analytics"
    /\ AfterSpread =>
        LET bids == order_book.bids
            asks == order_book.asks
        IN  /\ spread = IF bids # <<>> /\ asks # <<>>
                        THEN asks[1].items[1] - bids[1].items[1] ELSE 0
            /\ IF bids # <<>> /\ bids[1].items[1] # 0
               THEN IsQuotient(spread_percent, spread * 100, bids[1].items[1])
               ELSE spread_percent = Zero

RECURSIVE QtyUpTo(_, _)
\* The quantities of the first n levels, added up.
QtyUpTo(levels, n) == IF n = 0 THEN 0 ELSE QtyUpTo(levels, n - 1) + levels[n].items[2]

\* C9: the depth statements never fault; the total depths are the sums of the
\* quantities of all levels of their side; bid_ask_ratio is their quotient, and 0
\* when the ask total is 0; the document carries these values.
C9_DepthRatioGuarded ==
    /\ failed_at # "depth_analytics"
    /\ AfterDepth =>
        /\ total_bid_depth = QtyUpTo(order_book.bids, Len(order_book.bids))
        /\ total_ask_depth = QtyUpTo(order_book.asks, Len(order_book.asks))
        /\ IF total_ask_depth = 0
           THEN bid_ask_ratio = Zero
           ELSE IsQuotient(bid_ask_ratio, total_bid_depth, total_ask_depth)
    /\ pc = "save" =>
        /\ snapshot.depth_analysis.total_bid_depth = total_bid_depth
        /\ snapshot.depth_analysis.total_ask_depth = total_ask_depth
        /\ snapshot.depth_analysis.bid_ask_ratio = bid_ask_ratio

\* A book with ask levels whose quantities are all 0, and bids that are not.
C9_Witness ==
    /\ pc = "save"
    /\ order_book.asks # <<>>
    /\ total_ask_depth = 0
    /\ total_bid_depth > 0
    /\ snapshot.depth_analysis.bid_ask_ratio = Zero

Makers(trades) == {i \in 1..Len(trades) : trades[i].is_buyer_maker}
Takers(trades) == {i \in 1..Len(trades) : ~trades[i].is_buyer_maker}

RECURSIVE TradeQtyUpTo(_, _)
\* The quantities of the first n trades, added up.
TradeQtyUpTo(trades, n) == IF n = 0 THEN 0 ELSE TradeQtyUpTo(trades, n - 1) + trades[n].qty

\* C10: the trade statements never fault; buy_sell_ratio is 0 when no trade has the
\* maker as buyer and buy_trades / sell_trades otherwise; in the document total_trades
\* is the size of the sample and avg_trade_size is 0 for the empty sample and the
\* quantities' sum over the size otherwise.
C10_TradeRatiosGuarded ==
    /\ failed_at \notin {"trade_analytics", "build"}
    /\ AfterTrades =>
        IF Makers(recent_trades) = {}
        THEN buy_sell_ratio = Zero
        ELSE IsQuotient(buy_sell_ratio, Cardinality(Takers(recent_trades)),
                        Cardinality(Makers(recent_trades)))
    /\ pc = "save" =>
        /\ snapshot.trade_analysis.buy_sell_ratio = buy_sell_ratio
        /\ snapshot.trade_analysis.total_trades = Len(recent_trades)
        /\ IF recent_trades = <<>>
           THEN snapshot.trade_analysis.avg_trade_size = Zero
           ELSE IsQuotient(snapshot.trade_analysis.avg_trade_size,
                           TradeQtyUpTo(recent_trades, Len(recent_trades)),
                           Len(recent_trades))

\* The document of an empty trade sample.
C10_Witness ==
    /\ pc = "save"
    /\ recent_trades = <<>>
    /\ snapshot.trade_analysis.total_trades = 0
    /\ snapshot.trade_analysis.avg_trade_size = Zero
    /\ snapshot.trade_analysis.buy_sell_ratio = Zero

\* C11: every trade is counted in exactly one class: sell_trades is the number of
\* trades whose maker is the buyer, buy_trades the number of the others, and in the
\* document buy_trades + sell_trades = total_trades = the size of the sample.
C11_TradesCountedOnce ==
    /\ AfterTrades =>
        /\ trades_sell = Cardinality(Makers(recent_trades))
        /\ trades_buy = Cardinality(Takers(recent_trades))
        /\ trades_buy + trades_sell = Len(recent_trades)
    /\ pc = "save" =>
        /\ snapshot.trade_analysis.sell_trades = Cardinality(Makers(recent_trades))
        /\ snapshot.trade_analysis.buy_trades = Cardinality(Takers(recent_trades))
        /\ snapshot.trade_analysis.total_trades = Len(recent_trades)
        /\ snapshot.trade_analysis.buy_trades + snapshot.trade_analysis.sell_trades
                = snapshot.trade_analysis.total_trades

\* The document of a sample of three trades, one of them with the maker as buyer.
C11_Witness ==
    /\ pc = "save"
    /\ Len(recent_trades) = 3
    /\ snapshot.trade_analysis.sell_trades = 1
    /\ snapshot.trade_analysis.buy_trades = 2

\* The last min(Len(source), k) candles of the source, in the source's order.
IsTail(kept, source, k) ==
    /\ Len(kept) = Min(Len(source), k)
    /\ \A j \in 1..Len(kept) :
        \A f \in KlineFields : kept[j][f] = source[Len(source) - Len(kept) + j][f]

\* C12: for series of any length the document's klines hold exactly the last
\* min(n, K) candles of each source series, in the source's order, with K = 6 for
\* 1h, 6 for 4h and 7 for 1d.
C12_KlinesTail ==
    pc = "save" =>
        /\ DOMAIN snapshot.klines = {"1h", "4h", "1d"}
        /\ IsTail(snapshot.klines["1h"], klines_1h, 6)
        /\ IsTail(snapshot.klines["4h"], klines_4h, 6)
        /\ IsTail(snapshot.klines["1d"], klines_1d, 7)

\* An empty series, one shorter than its K and one longer than its K.
C12_Witness ==
    /\ pc = "save"
    /\ Len(klines_1h) = 3 /\ Len(snapshot.klines["1h"]) = 3
    /\ Len(klines_4h) = 0 /\ Len(snapshot.klines["4h"]) = 0
    /\ Len(klines_1d) = 8 /\ Len(snapshot.klines["1d"]) = 7
    /\ snapshot.klines["1d"][1].open_time = klines_1d[2].open_time

\* The ids of the httpx.Client objects the call's requests were made on.
HandlesUsed == {served[i] : i \in 1..Len(served)}

\* C15: the call's requests are all made on one handle, which the call opens at most
\* once (never when the supplied client is already open) and keeps open while it runs;
\* when the call ends, by return or by any exception, a client the call made itself
\* has that handle closed, and a client the caller supplied has it still open.
C15_HandleReleasedByOwner ==
    cli_pc = "none" =>
        /\ Cardinality(HandlesUsed) <= 1
        /\ 0 \notin HandlesUsed
        /\ client.opened <= client_entry.opened + 1
        /\ client_entry.handle # 0 =>
            /\ client.opened = client_entry.opened
            /\ HandlesUsed \subseteq {client_entry.handle}
        /\ pc \notin Finished =>
            /\ client.closed = client_entry.closed
            /\ HandlesUsed \subseteq {client.handle}
        /\ (pc \in Finished /\ should_close) =>
            /\ client.handle = 0
            /\ HandlesUsed # {}
            /\ HandlesUsed \subseteq client.closed
        /\ (pc \in Finished /\ ~should_close) =>
            /\ HandlesUsed = {client.handle}
            /\ client.closed = client_entry.closed

\* A supplied client that the call opened itself, left open after a failed save.
C15_Witness ==
    /\ pc = "failed" /\ failed_at = "save"
    /\ ~should_close
    /\ client_entry.handle = 0
    /\ served = [i \in 1..Len(FetchOrder) |-> 1]
    /\ client.handle = 1 /\ client.closed = {}

\* C15 as stated: whoever made the client, the handle has been released when the
\* call ends.
C15_ReleasedAtExit == pc \in Finished => client.handle = 0

\* The run failed: the probe's request failed, or an exception reached main.
RunFailed == probe \notin {"unsent", "ok"} \/ caught # ""
ErrorPrinted == \E i \in 1..Len(stdout) : stdout[i].line = "error"
\* The command ran to its last statement: the usage text or the footer was printed.
CommandCompleted == stdout # <<>> /\ stdout[Len(stdout)].line \in {"help", "footer"}

\* C13: a run that failed has printed an error line and exits with a status other
\* than zero, and a run exits with status zero only when its command completed.
C13_FailedRunExitsNonZero ==
    cli_pc = "exited" =>
        /\ RunFailed => (ErrorPrinted /\ exit_status # 0)
        /\ exit_status = 0 => CommandCompleted

\* C14: once the probe's request has been made, ping has returned a value to its
\* caller, true exactly when the request succeeded, and no exception of the request
\* has reached main.
C14_PingNeverRaises ==
    probe # "unsent" =>
        /\ ping_outcome.kind = "returned"
        /\ ping_outcome.value = (probe = "ok")
        /\ probe # "ok" => caught = ""

\* The probe's request timed out and ping returned False.
C14_Witness ==
    /\ probe = "ReadTimeout"
    /\ ping_outcome.kind = "returned" /\ ping_outcome.value = FALSE
    /\ caught = ""
    /\ cli_pc = "exited"

\* The httpx.Client objects of a BinanceClient that are created and not closed.
OpenHandles(c) == {h \in 1..c.opened : h \notin c.closed}
\* The client before the i-th call on it.
Before(i) == IF i = 1 THEN NewClient ELSE calls[i - 1].after

\* C16: over any sequence of requests and close() calls on one BinanceClient at most
\* one httpx.Client is open, the one _client holds: a request with no connection
\* creates a new one, a request with a connection reuses it, close() closes it and
\* resets _client, and close() with no connection changes nothing.
C16_AtMostOneOpen ==
    (cli_pc = "none" /\ pc = "idle") =>
        /\ client = Before(Len(calls) + 1)
        /\ Cardinality(OpenHandles(client)) <= 1
        /\ OpenHandles(client) = {client.handle} \ {0}
        /\ Len(served) = Cardinality({i \in 1..Len(calls) : calls[i].method # "close"})
        /\ \A i \in 1..Len(calls) :
            LET b == Before(i)
                a == calls[i].after
            IN  IF calls[i].method = "close"
                THEN /\ a.handle = 0
                     /\ a.opened = b.opened
                     /\ a.closed = b.closed \cup ({b.handle} \ {0})
                     /\ b.handle = 0 => a = b
                ELSE /\ a.handle # 0
                     /\ \E j \in 1..Len(served) : served[j] = a.handle
                     /\ a.closed = b.closed
                     /\ b.handle # 0 => a = b
                     /\ b.handle = 0 =>
                            /\ a.handle = b.opened + 1
                            /\ a.opened = b.opened + 1
                            /\ a.handle \notin b.closed

\* A request, two close() calls, then a request that opens the second httpx.Client.
C16_Witness ==
    /\ cli_pc = "none" /\ pc = "idle"
    /\ Len(calls) = 4
    /\ calls[1].method = "get" /\ calls[2].method = "close"
    /\ calls[3].method = "close" /\ calls[4].method = "get_raised"
    /\ calls[2].after = calls[3].after
    /\ client.handle = 2 /\ client.closed = {1}
    /\ served = <<1, 2>>

====
